---- MODULE Spec2Model ----
(***************************************************************************)
(* Guardian-dependent linking of the personal-security backend: QR         *)
(* invitations (scan / approve / reject through the pending-dependent,     *)
(* guardian and dependent routers), collaborator invitations, revocation   *)
(* and the emergency-contact hooks, over the shared relational store.      *)
(*                                                                         *)
(* Every handler is a function from (store, request) to (response, store): *)
(* <handler>_result computes the HTTP status, the detail message and the   *)
(* store the request leaves behind; the action of the same name commits    *)
(* that store.  Time is counted in days.                                   *)
(***************************************************************************)
EXTENDS Integers, FiniteSets, Sequences, TLC

\* ---- bounds of the model ------------------------------------------------
MaxPending == 2
MaxQR == 2
MaxCollab == 1
MaxRel == 2
MaxTime == 5
MaxInflight == 2
MaxSOS == 2

\* ---- program constants --------------------------------------------------
NULL == 0
QR_TTL_DAYS == 3
COLLAB_TTL_DAYS == 7

Users == {1, 2, 3}
Relations == {"child"}

\* The clock is read every other day.
ClockSteps == {2}
DependentRoles == {"child", "elderly"}

VARIABLES now, roles, pending, qr, rels, collab, contacts, seq, inflight,
          biometric, sos_events

vars == <<now, roles, pending, qr, rels, collab, contacts, seq, inflight,
          biometric, sos_events>>

\* The store as one value: the tables and the autoincrement counters.
DB == [roles |-> roles, pending |-> pending, qr |-> qr, rels |-> rels,
       collab |-> collab, contacts |-> contacts, seq |-> seq]

\* users.phone_number is unique per user: the user id stands for it.
Phone(u) == u

\* ---- responses ------------------------------------------------------------
\* HTTPException raised before any commit: the session's changes are dropped.
Fail(code, detail) == [code |-> code, detail |-> detail, db |-> DB, rel_id |-> NULL]

\* A response after the given store was committed.
Done(code, detail, db, rel_id) == [code |-> code, detail |-> detail, db |-> db, rel_id |-> rel_id]

\* Query.first() on a result set ordered by insertion.
First(S) == CHOOSE r \in S : \A s \in S : r.id <= s.id

NoRow == [id |-> NULL]

\* ---- role gates -----------------------------------------------------------
verify_guardian_role(u) == "guardian" \in roles[u]

verify_dependent_role(u) == roles[u] \cap DependentRoles # {}

\* verify_primary_guardian that accepts any relationship of the caller with
\* the dependent
verify_primary_guardian_anyrel(u, dependent_id) ==
    \E r \in rels : /\ r.guardian_id = u
                    /\ r.dependent_id = dependent_id

verify_primary_guardian(u, dependent_id) ==
    \E r \in rels : /\ r.guardian_id = u
                    /\ r.dependent_id = dependent_id
                    /\ r.is_primary
                    /\ r.guardian_type = "primary"

\* ---- QRInvitation methods -------------------------------------------------
calculate_expiry(days) == now + days

\* is_expired with the comparison the wrong way round
is_expired_reversed(q) == now < q.expires_at

is_expired(q) == now > q.expires_at

can_be_scanned(q) == q.status = "pending" /\ ~is_expired(q)

\* ---- row updates ----------------------------------------------------------
SetQR(db, q, q2) == [db EXCEPT !.qr = (@ \ {q}) \cup {q2}]

SetCollab(db, c, c2) == [db EXCEPT !.collab = (@ \ {c}) \cup {c2}]

\* Commit of a handler's outcome; creations stay within the model's bounds.
Apply(r) ==
    /\ r.db.seq.pd <= MaxPending + 1
    /\ r.db.seq.qr <= MaxQR + 1
    /\ r.db.seq.rel <= MaxRel + 1
    /\ r.db.seq.collab <= MaxCollab + 1
    /\ roles' = r.db.roles
    /\ pending' = r.db.pending
    /\ qr' = r.db.qr
    /\ rels' = r.db.rels
    /\ collab' = r.db.collab
    /\ contacts' = r.db.contacts
    /\ seq' = r.db.seq
    /\ UNCHANGED <<now, inflight, biometric, sos_events>>

\* ---- initial state --------------------------------------------------------
\* Three registered accounts: a guardian, a guardian who is also a child of
\* someone, and an elderly dependent.  All tables of the linking flow empty.
InitRoles == (1 :> {"guardian"}) @@ (2 :> {"guardian", "child"}) @@ (3 :> {"elderly"})

Init ==
    /\ now = 1
    /\ roles = InitRoles
    /\ pending = {}
    /\ qr = {}
    /\ rels = {}
    /\ collab = {}
    /\ contacts = {}
    /\ seq = [pd |-> 1, qr |-> 1, rel |-> 1, collab |-> 1]
    /\ inflight = {}
    /\ biometric = {u \in Users : "guardian" \in InitRoles[u]}
    /\ sos_events = {}

\* The clock: days pass.
Tick ==
    \E d \in ClockSteps :
        /\ now + d <= MaxTime
        /\ now' = now + d
    /\ UNCHANGED <<roles, pending, qr, rels, collab, contacts, seq, inflight, biometric, sos_events>>

\* ---- pending dependents ---------------------------------------------------
g_create_pending_dependent_result(u, relation) ==
    IF ~verify_guardian_role(u) THEN Fail(403, "User must have guardian role")
    ELSE Done(200, "created",
              [DB EXCEPT !.pending = @ \cup {[id |-> seq.pd, guardian_id |-> u, relation |-> relation]},
                         !.seq.pd = @ + 1],
              NULL)

g_create_pending_dependent(u, relation) ==
    /\ Apply(g_create_pending_dependent_result(u, relation))

pd_create_pending_dependent_result(u, relation) ==
    IF ~verify_guardian_role(u) THEN Fail(403, "User does not have guardian role")
    ELSE Done(201, "created",
              [DB EXCEPT !.pending = @ \cup {[id |-> seq.pd, guardian_id |-> u, relation |-> relation]},
                         !.seq.pd = @ + 1],
              NULL)

pd_create_pending_dependent(u, relation) ==
    /\ Apply(pd_create_pending_dependent_result(u, relation))

\* ON DELETE of a pending_dependent row: its QR invitations go with it
\* (cascade), relationships that reference it keep NULL (SET NULL).
CascadeDeletePending(db, pd) ==
    [db EXCEPT !.pending = @ \ {pd},
               !.qr = {q \in @ : q.pending_dependent_id # pd.id},
               !.rels = {IF r.pending_dependent_id = pd.id
                         THEN [r EXCEPT !.pending_dependent_id = NULL] ELSE r : r \in @}]

g_delete_pending_dependent_result(u, pdid) ==
    IF ~verify_guardian_role(u) THEN Fail(403, "User must have guardian role")
    ELSE LET found == {p \in pending : p.id = pdid /\ p.guardian_id = u} IN
         IF found = {} THEN Fail(404, "Pending dependent not found")
         ELSE Done(200, "deleted", CascadeDeletePending(DB, First(found)), NULL)

g_delete_pending_dependent(u, pdid) ==
    /\ Apply(g_delete_pending_dependent_result(u, pdid))

pd_delete_pending_dependent_result(u, pdid) ==
    IF ~verify_guardian_role(u) THEN Fail(403, "User does not have guardian role")
    ELSE LET found == {p \in pending : p.id = pdid /\ p.guardian_id = u}
             approved_qr == {q \in qr : q.pending_dependent_id = pdid /\ q.is_approved}
         IN  IF found = {} THEN Fail(404, "Pending dependent not found or not owned by you")
             ELSE IF approved_qr # {}
                  THEN Fail(400, "Cannot delete pending dependent with approved relationships")
                  ELSE Done(200, "deleted", CascadeDeletePending(DB, First(found)), NULL)

pd_delete_pending_dependent(u, pdid) ==
    /\ Apply(pd_delete_pending_dependent_result(u, pdid))

\* ---- QR generation --------------------------------------------------------
NewQR(u, pdid) ==
    [id |-> seq.qr, guardian_id |-> u, pending_dependent_id |-> pdid,
     scanned_by_user_id |-> NULL, status |-> "pending", is_approved |-> FALSE,
     expires_at |-> calculate_expiry(QR_TTL_DAYS), scanned_at |-> NULL, approved_at |-> NULL]

\* The rows the "status == pending" query of guardian.generate_qr_code matches;
\* .first() without ORDER BY returns any one of them (existing_qr).
g_generate_existing(pdid) ==
    LET m == {q \in qr : q.pending_dependent_id = pdid /\ q.status = "pending"}
    IN  IF m = {} THEN {NoRow} ELSE m

g_generate_qr_code_result(u, pdid, existing_qr) ==
    IF ~verify_guardian_role(u) THEN Fail(403, "User must have guardian role")
    ELSE LET found == {p \in pending : p.id = pdid /\ p.guardian_id = u} IN
         IF found = {} THEN Fail(404, "Pending dependent not found")
         ELSE IF existing_qr.id # NULL /\ ~is_expired(existing_qr)
              THEN Done(200, "QR code already exists", DB, NULL)
              ELSE Done(200, "QR code generated successfully",
                        [DB EXCEPT !.qr = @ \cup {NewQR(u, pdid)}, !.seq.qr = @ + 1], NULL)

g_generate_qr_code(u, pdid) ==
    \E existing_qr \in g_generate_existing(pdid) :
        /\ Apply(g_generate_qr_code_result(u, pdid, existing_qr))

pd_generate_qr_code_result(u, pdid) ==
    IF ~verify_guardian_role(u) THEN Fail(403, "User does not have guardian role")
    ELSE LET found == {p \in pending : p.id = pdid /\ p.guardian_id = u}
             existing_qr == {q \in qr : q.pending_dependent_id = pdid
                                        /\ q.status \in {"pending", "scanned"}}
         IN  IF found = {} THEN Fail(404, "Pending dependent not found or not owned by you")
             ELSE IF existing_qr # {} THEN Fail(400, "Active QR code already exists")
                  ELSE Done(200, "QR code generated successfully",
                            [DB EXCEPT !.qr = @ \cup {NewQR(u, pdid)}, !.seq.qr = @ + 1], NULL)

pd_generate_qr_code(u, pdid) ==
    /\ Apply(pd_generate_qr_code_result(u, pdid))

\* ---- emergency-contact hooks ----------------------------------------------
\* guardian_auto_contacts.on_guardian_relationship_created: one contact per
\* (dependent, guardian phone); nothing when such a contact already exists.
on_guardian_relationship_created(cs, rel) ==
    IF \E c \in cs : c.user_id = rel.dependent_id /\ c.phone_number = Phone(rel.guardian_id)
    THEN cs
    ELSE cs \cup {[user_id |-> rel.dependent_id,
                   phone_number |-> Phone(rel.guardian_id),
                   is_active |-> TRUE,
                   is_auto_generated |-> TRUE,
                   auto_from_guardian_id |-> rel.guardian_id,
                   source |-> "manual",
                   guardian_relationship_id |-> NULL]}

\* The call sites wrap the hook in try/except: when it raises it has rolled
\* back its own insert, and the caller logs the failure and goes on.
try_on_guardian_relationship_created(cs, rel, hook_ok) ==
    IF hook_ok THEN on_guardian_relationship_created(cs, rel) ELSE cs

\* remove_guardian_contact_for_dependent: the contact filed under the
\* relationship id with source "auto_guardian"
remove_guardian_contact_for_dependent(cs, dependent_id, relationship_id) ==
    {c \in cs : ~(/\ c.user_id = dependent_id
                  /\ c.guardian_relationship_id = relationship_id
                  /\ c.source = "auto_guardian")}

on_guardian_relationship_revoked(cs, rel) ==
    remove_guardian_contact_for_dependent(cs, rel.dependent_id, rel.id)

\* ---- scan -----------------------------------------------------------------
\* scan_qr_code that marks the invitation scanned without binding the scanner
pd_scan_qr_code_result_unbound(u, token) ==
    IF ~verify_dependent_role(u) THEN Fail(403, "User does not have dependent role")
    ELSE LET found == {q \in qr : q.id = token} IN
         IF found = {} THEN Fail(404, "Invalid QR code")
         ELSE LET q == First(found) IN
              IF is_expired(q)
              THEN Done(400, "QR code has expired",
                        SetQR(DB, q, [q EXCEPT !.status = "expired"]), NULL)
              ELSE IF ~can_be_scanned(q) THEN Fail(400, "QR code cannot be scanned")
              ELSE IF q.guardian_id = u THEN Fail(400, "Cannot scan your own QR code")
              ELSE Done(200, "QR code scanned successfully. Waiting for guardian approval.",
                        SetQR(DB, q, [q EXCEPT !.status = "scanned",
                                               !.scanned_at = now]), NULL)

\* pending_dependent.scan_qr_code (POST /api/pending-dependent/scan-qr); the
\* token of an invitation is modelled by its id.
pd_scan_qr_code_result(u, token) ==
    IF ~verify_dependent_role(u) THEN Fail(403, "User does not have dependent role")
    ELSE LET found == {q \in qr : q.id = token} IN
         IF found = {} THEN Fail(404, "Invalid QR code")
         ELSE LET q == First(found) IN
              IF is_expired(q)
              THEN Done(400, "QR code has expired",
                        SetQR(DB, q, [q EXCEPT !.status = "expired"]), NULL)
              ELSE IF ~can_be_scanned(q) THEN Fail(400, "QR code cannot be scanned")
              ELSE IF q.guardian_id = u THEN Fail(400, "Cannot scan your own QR code")
              ELSE Done(200, "QR code scanned successfully. Waiting for guardian approval.",
                        SetQR(DB, q, [q EXCEPT !.scanned_by_user_id = u,
                                               !.status = "scanned",
                                               !.scanned_at = now]), NULL)

pd_scan_qr_code(u, token) ==
    /\ Apply(pd_scan_qr_code_result(u, token))

\* dependent.assign_role_to_user for the relation of the pending dependent
assign_role_to_user(rs, u, relation) ==
    IF relation \in DependentRoles THEN [rs EXCEPT ![u] = @ \cup {relation}] ELSE rs

\* scan_qr_code that lets a failure of the contact hook end the request
dep_scan_qr_code_run_hookraises(u, token, hook_ok) ==
    IF ~verify_dependent_role(u) THEN Fail(403, "User must have child or elderly role")
    ELSE LET found == {q \in qr : q.id = token} IN
         IF found = {} THEN Fail(404, "Invalid QR code")
         ELSE LET q == First(found) IN
              IF is_expired(q)
              THEN Done(400, "QR code has expired",
                        SetQR(DB, q, [q EXCEPT !.status = "expired"]), NULL)
              ELSE IF q.status \notin {"pending", "scanned"}
                   THEN Fail(400, "QR code has already been processed")
              ELSE IF q.guardian_id = u THEN Fail(400, "You cannot scan your own QR code")
              ELSE LET pds == {p \in pending : p.id = q.pending_dependent_id} IN
                   IF pds = {} THEN Fail(404, "Pending dependent information not found")
                   ELSE LET pd == First(pds)
                            q2 == [q EXCEPT !.scanned_by_user_id = u,
                                            !.status = "approved",
                                            !.is_approved = TRUE,
                                            !.scanned_at = now,
                                            !.approved_at = now]
                            existing_relationship ==
                                {r \in rels : r.guardian_id = q.guardian_id /\ r.dependent_id = u}
                            new_relationship ==
                                [id |-> seq.rel, guardian_id |-> q.guardian_id, dependent_id |-> u,
                                 relation |-> pd.relation, is_primary |-> TRUE,
                                 guardian_type |-> "primary", pending_dependent_id |-> pd.id]
                            db1 == SetQR(DB, q, q2)
                            db2 == IF existing_relationship = {}
                                   THEN [db1 EXCEPT !.rels = @ \cup {new_relationship},
                                                    !.seq.rel = @ + 1,
                                                    !.contacts = try_on_guardian_relationship_created(@, new_relationship, hook_ok)]
                                   ELSE db1
                            db3 == [db2 EXCEPT !.roles = assign_role_to_user(@, u, pd.relation)]
                        IN  IF existing_relationship = {} /\ ~hook_ok
                            THEN Fail(500, "Failed to scan QR code")
                            ELSE Done(200, "Successfully linked", db3, NULL)

\* dependent.scan_qr_code (POST /api/dependent/scan-qr); hook_ok tells whether
\* on_guardian_relationship_created returns or raises.  The relationship and
\* the invitation are committed before the hook is called.
dep_scan_qr_code_run(u, token, hook_ok) ==
    IF ~verify_dependent_role(u) THEN Fail(403, "User must have child or elderly role")
    ELSE LET found == {q \in qr : q.id = token} IN
         IF found = {} THEN Fail(404, "Invalid QR code")
         ELSE LET q == First(found) IN
              IF is_expired(q)
              THEN Done(400, "QR code has expired",
                        SetQR(DB, q, [q EXCEPT !.status = "expired"]), NULL)
              ELSE IF q.status \notin {"pending", "scanned"}
                   THEN Fail(400, "QR code has already been processed")
              ELSE IF q.guardian_id = u THEN Fail(400, "You cannot scan your own QR code")
              ELSE LET pds == {p \in pending : p.id = q.pending_dependent_id} IN
                   IF pds = {} THEN Fail(404, "Pending dependent information not found")
                   ELSE LET pd == First(pds)
                            q2 == [q EXCEPT !.scanned_by_user_id = u,
                                            !.status = "approved",
                                            !.is_approved = TRUE,
                                            !.scanned_at = now,
                                            !.approved_at = now]
                            existing_relationship ==
                                {r \in rels : r.guardian_id = q.guardian_id /\ r.dependent_id = u}
                            new_relationship ==
                                [id |-> seq.rel, guardian_id |-> q.guardian_id, dependent_id |-> u,
                                 relation |-> pd.relation, is_primary |-> TRUE,
                                 guardian_type |-> "primary", pending_dependent_id |-> pd.id]
                            db1 == SetQR(DB, q, q2)
                            db2 == IF existing_relationship = {}
                                   THEN [db1 EXCEPT !.rels = @ \cup {new_relationship},
                                                    !.seq.rel = @ + 1,
                                                    !.contacts = try_on_guardian_relationship_created(@, new_relationship, hook_ok)]
                                   ELSE db1
                            db3 == [db2 EXCEPT !.roles = assign_role_to_user(@, u, pd.relation)]
                        IN  Done(200, "Successfully linked", db3, NULL)

\* The request when the contact hook does not fail.
dep_scan_qr_code_result(u, token) == dep_scan_qr_code_run(u, token, TRUE)

dep_scan_qr_code(u, token) ==
    \E hook_ok \in BOOLEAN :
        /\ Apply(dep_scan_qr_code_run(u, token, hook_ok))

\* ---- approve --------------------------------------------------------------
\* approve_qr_invitation that looks the invitation up by id and owner only,
\* whatever its status
g_approve_qr_invitation_result_anystatus(u, id) ==
    IF ~verify_guardian_role(u) THEN Fail(403, "User must have guardian role")
    ELSE LET found == {q \in qr : q.id = id /\ q.guardian_id = u} IN
         IF found = {} THEN Fail(404, "QR invitation not found or already processed")
         ELSE LET q == First(found)
                  pds == {p \in pending : p.id = q.pending_dependent_id}
                  existing_relationship ==
                      {r \in rels : r.guardian_id = u /\ r.dependent_id = q.scanned_by_user_id}
                  q2 == [q EXCEPT !.status = "approved", !.is_approved = TRUE, !.approved_at = now]
              IN  IF q.scanned_by_user_id = NULL THEN Fail(400, "QR has not been scanned yet")
                  ELSE IF pds = {} THEN Fail(404, "Pending dependent not found")
                  ELSE IF existing_relationship # {}
                       THEN Done(200, "Relationship already exists", SetQR(DB, q, q2),
                                 First(existing_relationship).id)
                  ELSE LET new_relationship ==
                               [id |-> seq.rel, guardian_id |-> u,
                                dependent_id |-> q.scanned_by_user_id,
                                relation |-> First(pds).relation, is_primary |-> TRUE,
                                guardian_type |-> "primary",
                                pending_dependent_id |-> First(pds).id]
                       IN  Done(200, "Relationship created successfully",
                                [SetQR(DB, q, q2) EXCEPT !.rels = @ \cup {new_relationship},
                                                         !.seq.rel = @ + 1],
                                new_relationship.id)

\* guardian.approve_qr_invitation (POST /api/guardian/approve-qr)
g_approve_qr_invitation_result(u, id) ==
    IF ~verify_guardian_role(u) THEN Fail(403, "User must have guardian role")
    ELSE LET found == {q \in qr : q.id = id /\ q.guardian_id = u /\ q.status = "scanned"} IN
         IF found = {} THEN Fail(404, "QR invitation not found or already processed")
         ELSE LET q == First(found)
                  pds == {p \in pending : p.id = q.pending_dependent_id}
                  existing_relationship ==
                      {r \in rels : r.guardian_id = u /\ r.dependent_id = q.scanned_by_user_id}
                  q2 == [q EXCEPT !.status = "approved", !.is_approved = TRUE, !.approved_at = now]
              IN  IF q.scanned_by_user_id = NULL THEN Fail(400, "QR has not been scanned yet")
                  ELSE IF pds = {} THEN Fail(404, "Pending dependent not found")
                  ELSE IF existing_relationship # {}
                       THEN Done(200, "Relationship already exists", SetQR(DB, q, q2),
                                 First(existing_relationship).id)
                  ELSE LET new_relationship ==
                               [id |-> seq.rel, guardian_id |-> u,
                                dependent_id |-> q.scanned_by_user_id,
                                relation |-> First(pds).relation, is_primary |-> TRUE,
                                guardian_type |-> "primary",
                                pending_dependent_id |-> First(pds).id]
                       IN  Done(200, "Relationship created successfully",
                                [SetQR(DB, q, q2) EXCEPT !.rels = @ \cup {new_relationship},
                                                         !.seq.rel = @ + 1],
                                new_relationship.id)

g_approve_qr_invitation(u, id) ==
    /\ Apply(g_approve_qr_invitation_result(u, id))

\* approve_qr_scan that looks the invitation up by id alone, whoever issued it
pd_approve_qr_scan_result_anyowner(u, id) ==
    IF ~verify_guardian_role(u) THEN Fail(403, "User does not have guardian role")
    ELSE LET found == {q \in qr : q.id = id} IN
         IF found = {} THEN Fail(404, "QR invitation not found or not owned by you")
         ELSE LET q == First(found)
                  pds == {p \in pending : p.id = q.pending_dependent_id}
                  existing_relationship ==
                      {r \in rels : r.guardian_id = u /\ r.dependent_id = q.scanned_by_user_id}
                  is_primary == {r \in rels : r.dependent_id = q.scanned_by_user_id} = {}
              IN  IF q.is_approved THEN Fail(400, "QR invitation already approved")
                  ELSE IF q.status # "scanned" \/ q.scanned_by_user_id = NULL
                       THEN Fail(400, "QR code has not been scanned yet")
                  ELSE IF pds = {} THEN Fail(404, "Pending dependent not found")
                  ELSE IF existing_relationship # {} THEN Fail(400, "Relationship already exists")
                  ELSE LET relationship ==
                               [id |-> seq.rel, guardian_id |-> u,
                                dependent_id |-> q.scanned_by_user_id,
                                relation |-> First(pds).relation, is_primary |-> is_primary,
                                guardian_type |-> "primary",
                                pending_dependent_id |-> First(pds).id]
                           q2 == [q EXCEPT !.is_approved = TRUE, !.status = "approved",
                                           !.approved_at = now]
                       IN  Done(200, "Relationship approved",
                                [SetQR(DB, q, q2) EXCEPT !.rels = @ \cup {relationship},
                                                         !.seq.rel = @ + 1],
                                relationship.id)

\* pending_dependent.approve_qr_scan (POST /api/pending-dependent/approve);
\* guardian_type is not passed and takes the column default "primary".
pd_approve_qr_scan_result(u, id) ==
    IF ~verify_guardian_role(u) THEN Fail(403, "User does not have guardian role")
    ELSE LET found == {q \in qr : q.id = id /\ q.guardian_id = u} IN
         IF found = {} THEN Fail(404, "QR invitation not found or not owned by you")
         ELSE LET q == First(found)
                  pds == {p \in pending : p.id = q.pending_dependent_id}
                  existing_relationship ==
                      {r \in rels : r.guardian_id = u /\ r.dependent_id = q.scanned_by_user_id}
                  is_primary == {r \in rels : r.dependent_id = q.scanned_by_user_id} = {}
              IN  IF q.is_approved THEN Fail(400, "QR invitation already approved")
                  ELSE IF q.status # "scanned" \/ q.scanned_by_user_id = NULL
                       THEN Fail(400, "QR code has not been scanned yet")
                  ELSE IF pds = {} THEN Fail(404, "Pending dependent not found")
                  ELSE IF existing_relationship # {} THEN Fail(400, "Relationship already exists")
                  ELSE LET relationship ==
                               [id |-> seq.rel, guardian_id |-> u,
                                dependent_id |-> q.scanned_by_user_id,
                                relation |-> First(pds).relation, is_primary |-> is_primary,
                                guardian_type |-> "primary",
                                pending_dependent_id |-> First(pds).id]
                           q2 == [q EXCEPT !.is_approved = TRUE, !.status = "approved",
                                           !.approved_at = now]
                       IN  Done(200, "Relationship approved",
                                [SetQR(DB, q, q2) EXCEPT !.rels = @ \cup {relationship},
                                                         !.seq.rel = @ + 1],
                                relationship.id)

pd_approve_qr_scan(u, id) ==
    /\ Apply(pd_approve_qr_scan_result(u, id))

\* ---- reject ---------------------------------------------------------------
\* guardian.reject_qr_invitation (POST /api/guardian/reject-qr)
g_reject_qr_invitation_result(u, id) ==
    IF ~verify_guardian_role(u) THEN Fail(403, "User must have guardian role")
    ELSE LET found == {q \in qr : q.id = id /\ q.guardian_id = u} IN
         IF found = {} THEN Fail(404, "QR invitation not found")
         ELSE Done(200, "QR invitation rejected",
                   SetQR(DB, First(found), [First(found) EXCEPT !.status = "rejected"]), NULL)

g_reject_qr_invitation(u, id) ==
    /\ Apply(g_reject_qr_invitation_result(u, id))

\* pending_dependent.reject_qr_scan (POST /api/pending-dependent/reject)
pd_reject_qr_scan_result(u, id) ==
    IF ~verify_guardian_role(u) THEN Fail(403, "User does not have guardian role")
    ELSE LET found == {q \in qr : q.id = id /\ q.guardian_id = u} IN
         IF found = {} THEN Fail(404, "QR invitation not found or not owned by you")
         ELSE IF First(found).status # "scanned"
              THEN Fail(400, "Can only reject scanned QR codes")
              ELSE Done(200, "QR invitation rejected successfully",
                        SetQR(DB, First(found), [First(found) EXCEPT !.status = "rejected",
                                                                     !.is_approved = FALSE]), NULL)

pd_reject_qr_scan(u, id) ==
    /\ Apply(pd_reject_qr_scan_result(u, id))

\* ---- collaborator invitations ----------------------------------------------
\* guardian.create_collaborator_invitation (POST /api/guardian/invite-collaborator);
\* the invitation code is modelled by the invitation id.
create_collaborator_invitation_result(u, dependent_id) ==
    IF ~verify_guardian_role(u) THEN Fail(403, "User must have guardian role")
    ELSE IF ~verify_primary_guardian(u, dependent_id)
         THEN Fail(403, "Only primary guardian can perform this action")
    ELSE IF dependent_id \notin Users THEN Fail(404, "Dependent not found")
    ELSE Done(200, "pending",
              [DB EXCEPT !.collab = @ \cup {[id |-> seq.collab, primary_guardian_id |-> u,
                                             dependent_id |-> dependent_id, status |-> "pending",
                                             collaborator_guardian_id |-> NULL,
                                             expires_at |-> now + COLLAB_TTL_DAYS,
                                             accepted_at |-> NULL]},
                         !.seq.collab = @ + 1],
              NULL)

create_collaborator_invitation(u, dependent_id) ==
    /\ Apply(create_collaborator_invitation_result(u, dependent_id))

\* guardian.accept_invitation (POST /api/guardian/accept-invitation); hook_ok
\* tells whether on_guardian_relationship_created returns or raises.
accept_invitation_run(u, code, hook_ok) ==
    IF ~verify_guardian_role(u) THEN Fail(403, "User must have guardian role")
    ELSE LET found == {c \in collab : c.id = code /\ c.status = "pending"} IN
         IF found = {} THEN Fail(404, "Invalid or already used invitation code")
         ELSE LET invitation == First(found)
                  accepted == [invitation EXCEPT !.status = "accepted",
                                                 !.collaborator_guardian_id = u,
                                                 !.accepted_at = now]
                  existing == {r \in rels : r.guardian_id = u
                                            /\ r.dependent_id = invitation.dependent_id}
                  primary_rel == {r \in rels : /\ r.guardian_id = invitation.primary_guardian_id
                                               /\ r.dependent_id = invitation.dependent_id
                                               /\ r.is_primary}
                  new_relationship ==
                      [id |-> seq.rel, guardian_id |-> u, dependent_id |-> invitation.dependent_id,
                       relation |-> IF primary_rel # {} THEN First(primary_rel).relation ELSE "child",
                       is_primary |-> FALSE, guardian_type |-> "collaborator",
                       pending_dependent_id |-> NULL]
              IN  IF now > invitation.expires_at
                  THEN Done(400, "This invitation has expired",
                            SetCollab(DB, invitation, [invitation EXCEPT !.status = "expired"]), NULL)
                  ELSE IF invitation.primary_guardian_id = u
                       THEN Fail(400, "You cannot accept your own invitation")
                  ELSE IF existing # {}
                       THEN Done(400, "You are already a guardian for this dependent",
                                 SetCollab(DB, invitation, accepted), NULL)
                  ELSE Done(200, "Successfully joined as collaborator guardian",
                            [SetCollab(DB, invitation, accepted)
                                EXCEPT !.rels = @ \cup {new_relationship},
                                       !.seq.rel = @ + 1,
                                       !.contacts = try_on_guardian_relationship_created(@, new_relationship, hook_ok)],
                            new_relationship.id)

\* The request when the contact hook does not fail.
accept_invitation_result(u, code) == accept_invitation_run(u, code, TRUE)

accept_invitation(u, code) ==
    \E hook_ok \in BOOLEAN :
        /\ Apply(accept_invitation_run(u, code, hook_ok))

\* ---- revocation -----------------------------------------------------------
\* Deleting a guardian_dependents row: emergency contacts filed under it go
\* with it (guardian_relationship_id, ON DELETE CASCADE).
DeleteRelationship(db, rel) ==
    [db EXCEPT !.rels = @ \ {rel},
               !.contacts = {c \in on_guardian_relationship_revoked(@, rel) :
                                 c.guardian_relationship_id # rel.id}]

\* guardian.revoke_collaborator (DELETE /api/guardian/collaborator/{id})
revoke_collaborator_result(u, relationship_id) ==
    LET found == {r \in rels : r.id = relationship_id} IN
    IF found = {} THEN Fail(404, "Relationship not found")
    ELSE IF ~verify_primary_guardian(u, First(found).dependent_id)
         THEN Fail(403, "Only primary guardian can perform this action")
    ELSE IF First(found).guardian_type # "collaborator"
         THEN Fail(400, "Can only revoke collaborator access")
    ELSE Done(200, "Collaborator access revoked successfully",
              DeleteRelationship(DB, First(found)), NULL)

revoke_collaborator(u, relationship_id) ==
    /\ Apply(revoke_collaborator_result(u, relationship_id))

\* dependent.remove_guardian (DELETE /api/dependent/remove-guardian/{id})
remove_guardian_result(u, relationship_id) ==
    IF ~verify_dependent_role(u) THEN Fail(403, "User must have child or elderly role")
    ELSE LET found == {r \in rels : r.id = relationship_id /\ r.dependent_id = u} IN
         IF found = {} THEN Fail(404, "Guardian relationship not found")
         ELSE Done(200, "Guardian removed successfully",
                   DeleteRelationship(DB, First(found)), NULL)

remove_guardian(u, relationship_id) ==
    /\ Apply(remove_guardian_result(u, relationship_id))

\* ---- request inputs -------------------------------------------------------
PendingIds == 1..MaxPending
QRIds == 1..MaxQR
RelIds == 1..MaxRel
CollabIds == 1..MaxCollab

\* ---- the linking flow: one request at a time -------------------------------
Next ==
    \/ Tick
    \/ \E u \in Users, relation \in Relations : g_create_pending_dependent(u, relation)
    \/ \E u \in Users, relation \in Relations : pd_create_pending_dependent(u, relation)
    \/ \E u \in Users, pdid \in PendingIds : g_delete_pending_dependent(u, pdid)
    \/ \E u \in Users, pdid \in PendingIds : pd_delete_pending_dependent(u, pdid)
    \/ \E u \in Users, pdid \in PendingIds : g_generate_qr_code(u, pdid)
    \/ \E u \in Users, pdid \in PendingIds : pd_generate_qr_code(u, pdid)
    \/ \E u \in Users, token \in QRIds : pd_scan_qr_code(u, token)
    \/ \E u \in Users, token \in QRIds : dep_scan_qr_code(u, token)
    \/ \E u \in Users, id \in QRIds : g_approve_qr_invitation(u, id)
    \/ \E u \in Users, id \in QRIds : pd_approve_qr_scan(u, id)
    \/ \E u \in Users, id \in QRIds : g_reject_qr_invitation(u, id)
    \/ \E u \in Users, id \in QRIds : pd_reject_qr_scan(u, id)
    \/ \E u \in Users, id \in RelIds : remove_guardian(u, id)

Spec == Init /\ [][Next]_vars

\* ---- the collaborator flow on top of QR linking -----------------------------
NextCollab ==
    \/ \E u \in Users, relation \in Relations : g_create_pending_dependent(u, relation)
    \/ \E u \in Users, pdid \in PendingIds : g_generate_qr_code(u, pdid)
    \/ \E u \in Users, token \in QRIds : pd_scan_qr_code(u, token)
    \/ \E u \in Users, token \in QRIds : dep_scan_qr_code(u, token)
    \/ \E u \in Users, id \in QRIds : g_approve_qr_invitation(u, id)
    \/ \E u \in Users, id \in QRIds : pd_approve_qr_scan(u, id)
    \/ \E u \in Users, d \in Users : create_collaborator_invitation(u, d)
    \/ \E u \in Users, code \in CollabIds : accept_invitation(u, code)
    \/ \E u \in Users, id \in RelIds : revoke_collaborator(u, id)
    \/ \E u \in Users, id \in RelIds : remove_guardian(u, id)

SpecCollab == Init /\ [][NextCollab]_vars

\* ---- two approve requests in flight -----------------------------------------
\* Each request runs in its own database session (get_db yields one per
\* request): the reads of approve_qr_invitation (the invitation, the pending
\* dependent, the existence check) see what is committed; the insert and the
\* status update are committed later.  inflight holds the requests that found
\* no relationship and have not committed yet, one per session.
Sessions == 1..MaxInflight

g_approve_qr_invitation_check(u, id, s) ==
    LET found == {q \in qr : q.id = id /\ q.guardian_id = u /\ q.status = "scanned"} IN
    /\ verify_guardian_role(u)
    /\ found # {}
    /\ \A r \in inflight : r.session # s
    /\ LET q == First(found)
           pds == {p \in pending : p.id = q.pending_dependent_id}
           existing_relationship ==
               {r \in rels : r.guardian_id = u /\ r.dependent_id = q.scanned_by_user_id}
           req == [session |-> s, guardian_id |-> u, qr_id |-> id,
                   dependent_id |-> q.scanned_by_user_id,
                   relation |-> First(pds).relation, pending_dependent_id |-> First(pds).id]
       IN  /\ q.scanned_by_user_id # NULL
           /\ pds # {}
           /\ existing_relationship = {}
           /\ inflight' = inflight \cup {req}
    /\ UNCHANGED <<now, roles, pending, qr, rels, collab, contacts, seq, biometric, sos_events>>

\* The insert, the UPDATE of the invitation by primary key, and the commit; a
\* row deleted in between fails the transaction, which is rolled back.
g_approve_qr_invitation_commit(s) ==
    LET reqs == {r \in inflight : r.session = s} IN
    /\ reqs # {}
    /\ seq.rel <= MaxRel
    /\ LET req == CHOOSE r \in reqs : TRUE
           rows == {q \in qr : q.id = req.qr_id}
           new_relationship ==
               [id |-> seq.rel, guardian_id |-> req.guardian_id,
                dependent_id |-> req.dependent_id, relation |-> req.relation,
                is_primary |-> TRUE, guardian_type |-> "primary",
                pending_dependent_id |-> req.pending_dependent_id]
       IN  /\ inflight' = inflight \ {req}
           /\ IF rows = {}
              THEN UNCHANGED <<qr, rels, seq>>
              ELSE /\ qr' = (qr \ rows) \cup {[First(rows) EXCEPT !.status = "approved",
                                                                 !.is_approved = TRUE,
                                                                 !.approved_at = now]}
                   /\ rels' = rels \cup {new_relationship}
                   /\ seq' = [seq EXCEPT !.rel = @ + 1]
    /\ UNCHANGED <<now, roles, pending, collab, contacts, biometric, sos_events>>

NextConc ==
    \/ \E u \in Users, relation \in Relations : g_create_pending_dependent(u, relation)
    \/ \E u \in Users, pdid \in PendingIds : g_generate_qr_code(u, pdid)
    \/ \E u \in Users, token \in QRIds : pd_scan_qr_code(u, token)
    \/ \E u \in Users, id \in QRIds, s \in Sessions : g_approve_qr_invitation_check(u, id, s)
    \/ \E s \in Sessions : g_approve_qr_invitation_commit(s)

SpecConc == Init /\ [][NextConc]_vars

\* ---- two scan requests in flight --------------------------------------------
\* pending_dependent.scan_qr_code in two sessions: the role test, the lookup
\* and the precondition tests read what is committed; the request that passes
\* them all waits in inflight (code NULL) until its UPDATE is committed.
pd_scan_qr_code_check(u, token, s) ==
    /\ \A r \in inflight : r.session # s
    /\ pd_scan_qr_code_result(u, token).code = 200
    /\ inflight' = inflight \cup {[session |-> s, user |-> u, qr_id |-> token, code |-> NULL]}
    /\ UNCHANGED <<now, roles, pending, qr, rels, collab, contacts, seq, biometric, sos_events>>

\* The UPDATE of the invitation by primary key with the values the session
\* assigned, the commit, and the response; the answered request stays in
\* inflight with its status code.
pd_scan_qr_code_commit(s) ==
    LET reqs == {r \in inflight : r.session = s /\ r.code = NULL} IN
    /\ reqs # {}
    /\ LET req == CHOOSE r \in reqs : TRUE
           rows == {q \in qr : q.id = req.qr_id}
       IN  IF rows = {}
           THEN /\ inflight' = (inflight \ {req}) \cup {[req EXCEPT !.code = 500]}
                /\ UNCHANGED qr
           ELSE /\ inflight' = (inflight \ {req}) \cup {[req EXCEPT !.code = 200]}
                /\ qr' = (qr \ rows) \cup {[First(rows) EXCEPT !.scanned_by_user_id = req.user,
                                                               !.status = "scanned",
                                                               !.scanned_at = now]}
    /\ UNCHANGED <<now, roles, pending, rels, collab, contacts, seq, biometric, sos_events>>

NextScanConc ==
    \/ \E u \in Users, relation \in Relations : g_create_pending_dependent(u, relation)
    \/ \E u \in Users, pdid \in PendingIds : g_generate_qr_code(u, pdid)
    \/ \E u \in Users, token \in QRIds, s \in Sessions : pd_scan_qr_code_check(u, token, s)
    \/ \E s \in Sessions : pd_scan_qr_code_commit(s)

SpecScanConc == Init /\ [][NextScanConc]_vars

\* ---- two accept-invitation requests in flight --------------------------------
\* guardian.accept_invitation in two sessions: the role test, the lookup of the
\* pending code and the tests on it read what is committed; the request that
\* passes them all waits in inflight (status_code NULL) until it commits.
accept_invitation_check(u, code, s) ==
    /\ \A r \in inflight : r.session # s
    /\ accept_invitation_result(u, code).code = 200
    /\ inflight' = inflight \cup
           {[session |-> s, user |-> u, invitation_id |-> code,
             relation |-> (CHOOSE n \in accept_invitation_result(u, code).db.rels \ rels : TRUE).relation,
             status_code |-> NULL]}
    /\ UNCHANGED <<now, roles, pending, qr, rels, collab, contacts, seq, biometric, sos_events>>

\* The insert of the collaborator relationship, the UPDATE of the invitation
\* by primary key, the commit, the contact hook and the response; the answered
\* request stays in inflight with its status code.
accept_invitation_commit(s) ==
    LET reqs == {r \in inflight : r.session = s /\ r.status_code = NULL} IN
    /\ reqs # {}
    /\ seq.rel <= MaxRel + 1
    /\ LET req == CHOOSE r \in reqs : TRUE
           rows == {c \in collab : c.id = req.invitation_id}
       IN  IF rows = {}
           THEN /\ inflight' = (inflight \ {req}) \cup {[req EXCEPT !.status_code = 500]}
                /\ UNCHANGED <<rels, collab, contacts, seq>>
           ELSE LET invitation == First(rows)
                    new_relationship ==
                        [id |-> seq.rel, guardian_id |-> req.user,
                         dependent_id |-> invitation.dependent_id, relation |-> req.relation,
                         is_primary |-> FALSE, guardian_type |-> "collaborator",
                         pending_dependent_id |-> NULL]
                IN  /\ inflight' = (inflight \ {req}) \cup {[req EXCEPT !.status_code = 200]}
                    /\ rels' = rels \cup {new_relationship}
                    /\ collab' = (collab \ rows) \cup
                           {[invitation EXCEPT !.status = "accepted",
                                               !.collaborator_guardian_id = req.user,
                                               !.accepted_at = now]}
                    /\ seq' = [seq EXCEPT !.rel = @ + 1]
                    /\ \E hook_ok \in BOOLEAN :
                           contacts' = try_on_guardian_relationship_created(contacts, new_relationship, hook_ok)
    /\ UNCHANGED <<now, roles, pending, qr, biometric, sos_events>>

NextAcceptConc ==
    \/ \E u \in Users, relation \in Relations : g_create_pending_dependent(u, relation)
    \/ \E u \in Users, pdid \in PendingIds : g_generate_qr_code(u, pdid)
    \/ \E u \in Users, token \in QRIds : dep_scan_qr_code(u, token)
    \/ \E u \in Users, dependent_id \in Users : create_collaborator_invitation(u, dependent_id)
    \/ \E u \in Users, code \in CollabIds, s \in Sessions : accept_invitation_check(u, code, s)
    \/ \E s \in Sessions : accept_invitation_commit(s)

SpecAcceptConc == Init /\ [][NextAcceptConc]_vars

\* ---- emergency contacts ---------------------------------------------------
\* A contact row is addressed by its owner and its phone number: the hooks are
\* the only inserts modelled, and they file at most one row per such pair.
ContactIds == Users \X Users

ContactRow(contact_id) ==
    {c \in contacts : c.user_id = contact_id[1] /\ c.phone_number = contact_id[2]}

\* schemas.EmergencyContactUpdate, its fields contact_phone and is_active: an
\* Optional field is a set of at most one value.
ContactUpdates == [contact_phone : {{}}, is_active : {{}, {TRUE}, {FALSE}}]

ApplyContactUpdate(c, contact_data) ==
    IF contact_data.is_active # {}
    THEN [c EXCEPT !.is_active = CHOOSE v \in contact_data.is_active : TRUE]
    ELSE c

\* PUT /api/my-emergency-contacts/{contact_id}
update_my_emergency_contact_result(u, contact_id, contact_data) ==
    LET found == {c \in ContactRow(contact_id) : c.user_id = u} IN
    IF found = {} THEN Fail(404, "Emergency contact not found")
    ELSE LET contact == CHOOSE c \in found : TRUE IN
         IF contact.source = "auto_guardian"
         THEN Fail(403, "Cannot modify auto-generated guardian contacts")
         \* contact_data.phone_number: the schema has no such field, the
         \* AttributeError is caught, rolled back and answered 500
         ELSE IF "phone_number" \notin DOMAIN contact_data
         THEN Fail(500, "Failed to update emergency contact")
         ELSE Done(200, "updated",
                   [DB EXCEPT !.contacts = (@ \ {contact}) \cup {ApplyContactUpdate(contact, contact_data)}],
                   NULL)

update_my_emergency_contact(u, contact_id, contact_data) ==
    /\ Apply(update_my_emergency_contact_result(u, contact_id, contact_data))

\* DELETE /api/my-emergency-contacts/{contact_id}
delete_my_emergency_contact_result(u, contact_id) ==
    LET found == {c \in ContactRow(contact_id) : c.user_id = u} IN
    IF found = {} THEN Fail(404, "Emergency contact not found")
    ELSE LET contact == CHOOSE c \in found : TRUE IN
         IF contact.source = "auto_guardian"
         THEN Fail(403, "Cannot delete auto-generated guardian contacts")
         ELSE Done(200, "Emergency contact deleted successfully",
                   [DB EXCEPT !.contacts = @ \ {contact}], NULL)

delete_my_emergency_contact(u, contact_id) ==
    /\ Apply(delete_my_emergency_contact_result(u, contact_id))

\* DELETE /api/dependent/emergency-contacts/{contact_id}
delete_dependent_emergency_contact_result(u, contact_id) ==
    LET found == ContactRow(contact_id) IN
    IF found = {} THEN Fail(404, "Emergency contact not found")
    ELSE LET contact == CHOOSE c \in found : TRUE IN
         IF ~verify_primary_guardian(u, contact.user_id)
         THEN Fail(403, "Only primary guardian can perform this action")
         ELSE IF contact.source = "auto_guardian"
         THEN Fail(400, "Cannot delete auto-generated guardian contacts")
         ELSE Done(200, "Emergency contact deleted successfully",
                   [DB EXCEPT !.contacts = @ \ {contact}], NULL)

delete_dependent_emergency_contact(u, contact_id) ==
    /\ Apply(delete_dependent_emergency_contact_result(u, contact_id))

\* ---- SOS events -------------------------------------------------------------
\* auth_utils.get_current_user_with_roles: the user row with the attributes
\* the dependency attaches to it.
get_current_user_with_roles(u) ==
    [id |-> u, token_roles |-> roles[u], has_roles |-> roles[u] # {}]

\* sos._has_any_role: getattr(user, "role_names", [])
has_any_role(user, allowed) ==
    LET role_names == IF "role_names" \in DOMAIN user THEN user.role_names ELSE {} IN
    role_names \cap allowed # {}

SOSAllowedRoles == {"child", "elderly", "global_user", "guardian", "admin"}

\* The recipients of the alert: guardians of the caller and the users whose
\* phone number is on an active contact of the caller, the caller excepted.
recipient_user_ids(u) ==
    LET guardian_user_ids == {rel.guardian_id : rel \in {r \in rels : r.dependent_id = u}}
        contact_phones == {c.phone_number : c \in {e \in contacts : e.user_id = u /\ e.is_active}}
        contact_user_ids == {x \in Users : Phone(x) \in contact_phones}
    IN (guardian_user_ids \cup contact_user_ids) \ {u}

\* POST /api/sos/events
create_sos_event_result(u) ==
    LET current_user == get_current_user_with_roles(u) IN
    IF ~has_any_role(current_user, SOSAllowedRoles)
    THEN [code |-> 403, detail |-> "Your account is not allowed to create SOS events.",
          sos_events |-> sos_events, recipients |-> {}]
    ELSE [code |-> 200, detail |-> "SOS event recorded. Notifications queued.",
          sos_events |-> sos_events \cup {[id |-> Cardinality(sos_events) + 1, user_id |-> current_user.id]},
          recipients |-> recipient_user_ids(current_user.id)]

create_sos_event(u) ==
    /\ Cardinality(create_sos_event_result(u).sos_events) <= MaxSOS
    /\ sos_events' = create_sos_event_result(u).sos_events
    /\ UNCHANGED <<now, roles, pending, qr, rels, collab, contacts, seq, inflight, biometric>>

\* ---- contacts and SOS on top of the collaborator flow -------------------------
NextContacts ==
    \/ \E u \in Users, relation \in Relations : g_create_pending_dependent(u, relation)
    \/ \E u \in Users, pdid \in PendingIds : g_generate_qr_code(u, pdid)
    \/ \E u \in Users, token \in QRIds : dep_scan_qr_code(u, token)
    \/ \E u \in Users, d \in Users : create_collaborator_invitation(u, d)
    \/ \E u \in Users, code \in CollabIds : accept_invitation(u, code)
    \/ \E u \in Users, id \in RelIds : revoke_collaborator(u, id)
    \/ \E u \in Users, id \in RelIds : remove_guardian(u, id)
    \/ \E u \in Users, id \in ContactIds, data \in ContactUpdates : update_my_emergency_contact(u, id, data)
    \/ \E u \in Users, id \in ContactIds : delete_my_emergency_contact(u, id)
    \/ \E u \in Users, id \in ContactIds : delete_dependent_emergency_contact(u, id)
    \/ \E u \in Users : create_sos_event(u)

SpecContacts == Init /\ [][NextContacts]_vars

\* ---- role selection and biometric setup ---------------------------------------
\* The rows of the roles table (database/init_db.py); a role id is
\* written as the role's name.
RoleNames == {"admin", "global_user", "guardian", "child", "elderly"}

\* request.role_id: a row of the table, or an id no row has
RoleIds == RoleNames \cup {"missing"}

\* select_user_role that assigns every role but admin at once
select_user_role_result_assignsguardian(u, role_id) ==
    IF role_id \notin RoleNames THEN Fail(404, "Role not found")
    ELSE IF role_id = "admin" THEN Fail(403, "Cannot self-assign admin role")
    ELSE IF role_id \in roles[u] THEN Fail(400, "User already has this role")
    ELSE Done(200, "Role assigned successfully",
              [DB EXCEPT !.roles[u] = @ \cup {role_id}], NULL)

\* POST /api/auth/select-role
select_user_role_result(u, role_id) ==
    IF role_id \notin RoleNames THEN Fail(404, "Role not found")
    ELSE IF role_id = "admin" THEN Fail(403, "Cannot self-assign admin role")
    ELSE IF role_id \in roles[u] THEN Fail(400, "User already has this role")
    ELSE IF role_id = "guardian"
    THEN Done(200, "Guardian role selected. Please enable biometric authentication to complete setup.",
              DB, NULL)
    ELSE Done(200, "Role assigned successfully",
              [DB EXCEPT !.roles[u] = @ \cup {role_id}], NULL)

select_user_role(u, role_id) ==
    /\ Apply(select_user_role_result(u, role_id))

\* POST /api/auth/enable-biometric
enable_biometric_authentication_result(u) ==
    IF u \in biometric
    THEN [code |-> 200, roles |-> roles, biometric |-> biometric]
    ELSE [code |-> 200,
          roles |-> [roles EXCEPT ![u] = @ \cup {"guardian"}],
          biometric |-> biometric \cup {u}]

enable_biometric_authentication(u) ==
    /\ roles' = enable_biometric_authentication_result(u).roles
    /\ biometric' = enable_biometric_authentication_result(u).biometric
    /\ UNCHANGED <<now, pending, qr, rels, collab, contacts, seq, inflight, sos_events>>

\* POST /api/auth/disable-biometric
disable_biometric_authentication(u) ==
    /\ biometric' = biometric \ {u}
    /\ UNCHANGED <<now, roles, pending, qr, rels, collab, contacts, seq, inflight, sos_events>>

\* Accounts as registration leaves them: no role chosen, biometric off.
InitAuth ==
    /\ now = 1
    /\ roles = [u \in Users |-> {}]
    /\ pending = {}
    /\ qr = {}
    /\ rels = {}
    /\ collab = {}
    /\ contacts = {}
    /\ seq = [pd |-> 1, qr |-> 1, rel |-> 1, collab |-> 1]
    /\ inflight = {}
    /\ biometric = {}
    /\ sos_events = {}

NextAuth ==
    \/ \E u \in Users, role_id \in RoleIds : select_user_role(u, role_id)
    \/ \E u \in Users : enable_biometric_authentication(u)
    \/ \E u \in Users : disable_biometric_authentication(u)

SpecAuth == InitAuth /\ [][NextAuth]_vars

\* ---- re-issuing after expiry: no scan request is made -------------------------
\* The guardian's side alone: stubs are created, invitations are asked for and
\* time passes.  The guardian who is refused through the pending-dependent
\* router asks again.
NextReissue ==
    \/ Tick
    \/ \E u \in Users, relation \in Relations : g_create_pending_dependent(u, relation)
    \/ \E u \in Users, relation \in Relations : pd_create_pending_dependent(u, relation)
    \/ \E u \in Users, pdid \in PendingIds : g_generate_qr_code(u, pdid)
    \/ \E u \in Users, pdid \in PendingIds : pd_generate_qr_code(u, pdid)

SpecReissue ==
    /\ Init
    /\ [][NextReissue]_vars
    /\ \A u \in Users, pdid \in PendingIds : WF_vars(pd_generate_qr_code(u, pdid))

\* ==== properties of the linking flow ========================================
Terminal == {"approved", "rejected", "expired"}

\* The relationships between one guardian and one dependent.
PairRows(g, d) == {r \in rels : r.guardian_id = g /\ r.dependent_id = d}

\* C1: in every reachable state each dependent has at most one relationship
\* marked primary.
C1_AtMostOnePrimary ==
    \A d \in Users : Cardinality({r \in rels : r.dependent_id = d /\ r.is_primary}) <= 1

\* C2: at most one relationship row exists per (guardian_id, dependent_id)
\* pair, also when two approve requests interleave between the existence
\* check and the insert.
C2_OneRelationshipPerPair ==
    \A r1 \in rels, r2 \in rels :
        (r1.guardian_id = r2.guardian_id /\ r1.dependent_id = r2.dependent_id) => r1 = r2

\* C3: approved, rejected and expired are terminal: no step changes the status
\* of an invitation that is in one of them.
C3_TerminalStatuses ==
    [][\A q \in qr : q.status \in Terminal =>
          \A q2 \in qr' : q2.id = q.id => q2.status = q.status]_vars

\* C4: expires_at never changes, and once now > expires_at the only status
\* change of an invitation is to expired; a step that changes a scanned
\* invitation past its expiry adds no relationship.
C4_OnlyExpiredAfterExpiry ==
    [][\A q \in qr : \A q2 \in qr' : q2.id = q.id =>
          /\ q2.expires_at = q.expires_at
          /\ now > q.expires_at => (q2.status = q.status \/ q2.status = "expired")
          /\ (now > q.expires_at /\ q.status = "scanned" /\ q2 # q) => rels' \subseteq rels]_vars

\* C5: a relationship row is inserted only by the approval of a scanned
\* invitation: the step that inserts it starts from a state where an
\* invitation of that guardian is in status scanned, bound to that dependent.
C5_RelationshipOnlyByApproval ==
    [][\A r \in rels' : (\A o \in rels : o.id # r.id) =>
          \E q \in qr : /\ q.status = "scanned"
                        /\ q.guardian_id = r.guardian_id
                        /\ q.scanned_by_user_id = r.dependent_id]_vars

\* C6: a successful scan of a pending, unexpired invitation by a user other
\* than the issuer binds scanned_by_user_id to the scanner, sets scanned_at and
\* leaves the invitation scanned and not approved.
C6_ScanLeavesScanned ==
    [][\A u \in Users : \A q \in qr :
          (/\ q.status = "pending"
           /\ now <= q.expires_at
           /\ u # q.guardian_id
           /\ \/ pd_scan_qr_code_result(u, q.id).code = 200 /\ pd_scan_qr_code(u, q.id)
              \/ dep_scan_qr_code_result(u, q.id).code = 200 /\ dep_scan_qr_code(u, q.id))
          => \E q2 \in qr' : /\ q2.id = q.id
                             /\ q2.scanned_by_user_id = u
                             /\ q2.scanned_at = now
                             /\ q2.status = "scanned"
                             /\ ~q2.is_approved]_vars

\* C7 as claimed: after a successful approve of an invitation by its issuer,
\* the same request made again succeeds, returns the same relationship id and
\* adds no relationship row.
C7_ApproveTwiceIdempotent ==
    [][\A q \in qr :
          /\ (g_approve_qr_invitation_result(q.guardian_id, q.id).code = 200
              /\ g_approve_qr_invitation(q.guardian_id, q.id)) =>
                 LET first == g_approve_qr_invitation_result(q.guardian_id, q.id).rel_id IN
                 /\ (g_approve_qr_invitation_result(q.guardian_id, q.id).code = 200)'
                 /\ (g_approve_qr_invitation_result(q.guardian_id, q.id).rel_id)' = first
                 /\ (g_approve_qr_invitation_result(q.guardian_id, q.id).db.rels = rels)'
          /\ (pd_approve_qr_scan_result(q.guardian_id, q.id).code = 200
              /\ pd_approve_qr_scan(q.guardian_id, q.id)) =>
                 LET first == pd_approve_qr_scan_result(q.guardian_id, q.id).rel_id IN
                 /\ (pd_approve_qr_scan_result(q.guardian_id, q.id).code = 200)'
                 /\ (pd_approve_qr_scan_result(q.guardian_id, q.id).rel_id)' = first
                 /\ (pd_approve_qr_scan_result(q.guardian_id, q.id).db.rels = rels)']_vars

\* C7 as amended: an approve of an invitation that is already approved is
\* refused by both routers (404 by guardian, 400 by pending-dependent) and
\* leaves the whole store, the relationships included, as it was.
C7_ReapproveRefused ==
    \A q \in qr :
        q.is_approved =>
            LET r1 == g_approve_qr_invitation_result(q.guardian_id, q.id)
                r2 == pd_approve_qr_scan_result(q.guardian_id, q.id)
            IN  /\ r1.code = 404 /\ r1.db = DB
                /\ r2.code = 400 /\ r2.detail = "QR invitation already approved" /\ r2.db = DB

\* An invitation approved by an approve request some days after its scan, with
\* the relationship in place.
C7_Witness ==
    \E q \in qr : /\ q.is_approved
                  /\ q.status = "approved"
                  /\ q.approved_at # q.scanned_at
                  /\ PairRows(q.guardian_id, q.scanned_by_user_id) # {}

\* C8: a reject of an invitation that was never scanned is answered 400 and
\* leaves the invitations unchanged.
C8_RejectUnscannedFails ==
    [][\A q \in qr : (q.status = "pending" /\ q.scanned_by_user_id = NULL) =>
          /\ g_reject_qr_invitation(q.guardian_id, q.id) =>
                (g_reject_qr_invitation_result(q.guardian_id, q.id).code = 400 /\ qr' = qr)
          /\ pd_reject_qr_scan(q.guardian_id, q.id) =>
                (pd_reject_qr_scan_result(q.guardian_id, q.id).code = 400 /\ qr' = qr)]_vars

\* The step binds scanned_by_user_id of invitation q2 (unbound or bound to
\* someone else before) and is a successful scan of it by that user.
BoundByScan(q2) ==
    \E u \in Users :
        /\ u = q2.scanned_by_user_id
        /\ \/ pd_scan_qr_code_result(u, q2.id).code = 200 /\ pd_scan_qr_code(u, q2.id)
           \/ dep_scan_qr_code_result(u, q2.id).code = 200 /\ dep_scan_qr_code(u, q2.id)

\* C9: scanned_by_user_id is set exactly on the invitations a successful scan
\* has been made of (those carry scanned_at): it is NULL while the status is
\* pending, set in status scanned and approved, bound only by a successful scan
\* step of that user, and never cleared.
C9_RedeemedByIffScanned ==
    /\ [](\A q \in qr :
            /\ (q.scanned_by_user_id # NULL) <=> (q.scanned_at # NULL)
            /\ q.status = "pending" => q.scanned_by_user_id = NULL
            /\ q.status \in {"scanned", "approved"} => q.scanned_by_user_id # NULL)
    /\ [][\A q2 \in qr' :
            /\ (q2.scanned_by_user_id # NULL /\ q2 \notin qr) =>
                   (BoundByScan(q2) \/ \E q \in qr : q.id = q2.id
                                                    /\ q.scanned_by_user_id = q2.scanned_by_user_id)
            /\ \A q \in qr : (q.id = q2.id /\ q.scanned_by_user_id # NULL) =>
                   q2.scanned_by_user_id # NULL]_vars

\* A scanned invitation waiting for approval beside an invitation that was
\* rejected without ever being scanned.
C9_Witness ==
    /\ \E q \in qr : q.status = "scanned" /\ q.scanned_by_user_id # NULL
    /\ \E q \in qr : q.status = "rejected" /\ q.scanned_by_user_id = NULL

\* C10: a scan, by a user holding a dependent role, of an invitation whose
\* expires_at has passed is answered 400 "QR code has expired" by both scan
\* endpoints, leaves the invitation expired and the relationships unchanged;
\* no step moves an invitation past its expiry into status scanned.
C10_ExpiredScanAlwaysExpires ==
    /\ [](\A u \in Users : \A q \in qr :
            (now > q.expires_at /\ verify_dependent_role(u)) =>
                \A r \in {pd_scan_qr_code_result(u, q.id), dep_scan_qr_code_result(u, q.id)} :
                    /\ r.code = 400
                    /\ r.detail = "QR code has expired"
                    /\ r.db.qr = (qr \ {q}) \cup {[q EXCEPT !.status = "expired"]}
                    /\ r.db.rels = rels)
    /\ [][\A q \in qr : \A q2 \in qr' :
            (q2.id = q.id /\ now > q.expires_at /\ q.status # "scanned") =>
                q2.status # "scanned"]_vars

\* An invitation past its expiry that a scan has marked expired.
C10_Witness ==
    \E q \in qr : now > q.expires_at /\ q.status = "expired"

\* C11: a relationship inserted by the approval of a scanned invitation is
\* primary exactly when the dependent had no relationship before the approval
\* and is a collaborator link otherwise.
C11_LinkRoleByExistingRelationship ==
    [][\A q \in qr :
          (/\ q.status = "scanned"
           /\ \/ g_approve_qr_invitation_result(q.guardian_id, q.id).code = 200
                 /\ g_approve_qr_invitation(q.guardian_id, q.id)
              \/ pd_approve_qr_scan_result(q.guardian_id, q.id).code = 200
                 /\ pd_approve_qr_scan(q.guardian_id, q.id))
          => \A r \in rels' \ rels :
                 LET first == {o \in rels : o.dependent_id = r.dependent_id} = {} IN
                 /\ r.is_primary <=> first
                 /\ r.guardian_type = IF first THEN "primary" ELSE "collaborator"]_vars

\* The requests of C12: approve and reject, through either router.
ApproveResults(u, id) == {g_approve_qr_invitation_result(u, id), pd_approve_qr_scan_result(u, id)}

RejectResults(u, id) == {g_reject_qr_invitation_result(u, id), pd_reject_qr_scan_result(u, id)}

ScanKind(r) ==
    IF r.code = 200 THEN "OK"
    ELSE IF r.code = 403 THEN "Forbidden"
    ELSE IF r.code = 404 THEN "NotFound"
    ELSE IF r.detail = "QR code has expired" THEN "Expired"
    ELSE IF r.detail \in {"QR code cannot be scanned", "QR code has already been processed"}
         THEN "AlreadyProcessed"
    ELSE IF r.detail \in {"Cannot scan your own QR code", "You cannot scan your own QR code"}
         THEN "SelfScanForbidden"
    ELSE "Other"

\* The first failing precondition of a scan in the order of C13 ("OK": none).
ScanExpected(u, token) ==
    LET found == {q \in qr : q.id = token} IN
    IF found = {} THEN "NotFound"
    ELSE LET q == First(found) IN
         IF now > q.expires_at THEN "Expired"
         ELSE IF q.status \notin {"pending", "scanned"} THEN "AlreadyProcessed"
         ELSE IF u = q.guardian_id THEN "SelfScanForbidden"
         ELSE "OK"

\* C13: a scan by a user holding a dependent role that fails a precondition
\* reports the first failing one in the order unknown token, expired, status
\* not in {pending, scanned}, scanner is the issuer.
C13_ScanErrorOrder ==
    \A u \in Users : \A token \in QRIds :
        (verify_dependent_role(u) /\ ScanExpected(u, token) # "OK") =>
            /\ ScanKind(pd_scan_qr_code_result(u, token)) = ScanExpected(u, token)
            /\ ScanKind(dep_scan_qr_code_result(u, token)) = ScanExpected(u, token)

\* The responses to the scan, approve, reject and accept-invitation requests a
\* client can make in the current state.
RequestResults ==
    UNION {{pd_scan_qr_code_result(u, id), dep_scan_qr_code_result(u, id),
            g_approve_qr_invitation_result(u, id), pd_approve_qr_scan_result(u, id),
            g_reject_qr_invitation_result(u, id), pd_reject_qr_scan_result(u, id)}
           : u \in Users, id \in QRIds}
    \cup {accept_invitation_result(u, code) : u \in Users, code \in CollabIds}

\* new is old with at most some statuses set to expired.
OnlyExpired(old, new) ==
    /\ {x.id : x \in new} = {x.id : x \in old}
    /\ \A x \in new : x \in old \/ \E o \in old : x = [o EXCEPT !.status = "expired"]

\* C14: a request that is answered with an error leaves invitations,
\* collaborator invitations and relationships as they were, except that an
\* Expired failure may set the status of the invitation to expired.
C14_ErrorsLeaveStoreUnchanged ==
    \A r \in RequestResults :
        r.code >= 400 =>
            /\ r.db.rels = rels
            /\ IF r.detail \in {"QR code has expired", "This invitation has expired"}
               THEN OnlyExpired(qr, r.db.qr) /\ OnlyExpired(collab, r.db.collab)
               ELSE r.db.qr = qr /\ r.db.collab = collab

\* C15: of the scan requests for one token that read it pending, at most one
\* user is answered with success, and scanned_by_user_id is that user.
C15_AtMostOneScanner ==
    \A r1 \in inflight : \A r2 \in inflight :
        (r1.code = 200 /\ r2.code = 200 /\ r1.qr_id = r2.qr_id) =>
            /\ r1.user = r2.user
            /\ \A q \in qr : q.id = r1.qr_id => q.scanned_by_user_id = r1.user

\* The responses of the requests that can insert a relationship, when the
\* contact hook does not fail.
CreatingResults ==
    UNION {{g_approve_qr_invitation_result(u, id), pd_approve_qr_scan_result(u, id),
            dep_scan_qr_code_result(u, id)} : u \in Users, id \in QRIds}
    \cup {accept_invitation_result(u, code) : u \in Users, code \in CollabIds}

\* C16: a successful request that inserts a relationship leaves the dependent
\* with an emergency contact carrying the guardian's phone number.
C16_ContactForNewRelationship ==
    \A r \in CreatingResults :
        r.code = 200 =>
            \A n \in r.db.rels \ rels :
                \E c \in r.db.contacts : /\ c.user_id = n.dependent_id
                                         /\ c.phone_number = Phone(n.guardian_id)

\* C17: when the contact hook raises, the scan-time link and the collaborator
\* accept are answered as when it returns, and commit the same relationship,
\* invitation status and roles; only the contact is missing.
C17_HookFailureKeepsRelationship ==
    /\ \A u \in Users : \A token \in QRIds :
          LET ok == dep_scan_qr_code_run(u, token, TRUE)
              failed == dep_scan_qr_code_run(u, token, FALSE)
          IN  /\ failed.code = ok.code
              /\ failed.db.rels = ok.db.rels
              /\ failed.db.qr = ok.db.qr
              /\ failed.db.roles = ok.db.roles
              /\ (ok.code = 200 /\ ok.db.rels # rels) =>
                    /\ failed.db.contacts = contacts
                    /\ \E q \in failed.db.qr : q.id = token /\ q.status = "approved"
    /\ \A u \in Users : \A code \in CollabIds :
          LET ok == accept_invitation_run(u, code, TRUE)
              failed == accept_invitation_run(u, code, FALSE)
          IN  /\ failed.code = ok.code
              /\ failed.rel_id = ok.rel_id
              /\ failed.db.rels = ok.db.rels
              /\ failed.db.collab = ok.db.collab
              /\ ok.code = 200 =>
                    /\ failed.db.contacts = contacts
                    /\ failed.db.rels # rels
                    /\ \E c \in failed.db.collab : c.id = code /\ c.status = "accepted"

\* A collaborator accepted an invitation, the contact hook failed, and the
\* collaborator relationship is there without its contact.
C17_Witness ==
    \E r \in rels : \E c \in collab :
        /\ r.guardian_type = "collaborator"
        /\ c.status = "accepted"
        /\ c.collaborator_guardian_id = r.guardian_id
        /\ c.dependent_id = r.dependent_id
        /\ ~\E e \in contacts : e.user_id = r.dependent_id /\ e.phone_number = Phone(r.guardian_id)

\* The contacts the hook filed for the guardian of a relationship.
AutoContacts(cs, rel) ==
    {c \in cs : /\ c.user_id = rel.dependent_id
                /\ c.is_auto_generated
                /\ c.auto_from_guardian_id = rel.guardian_id}

\* C18: a successful revoke (revoke_collaborator by the primary guardian,
\* remove_guardian by the dependent) deletes the relationship and leaves the
\* dependent without the contact that was auto-created for that guardian.
C18_RevokeRemovesAutoContact ==
    \A u \in Users : \A rel \in rels :
        \A r \in {revoke_collaborator_result(u, rel.id), remove_guardian_result(u, rel.id)} :
            r.code = 200 => /\ rel \notin r.db.rels
                            /\ AutoContacts(r.db.contacts, rel) = {}

\* C19: an invitation disappears only with its pending dependent, deleted by
\* the guardian who owns it, and only while none of its invitations is approved
\* and no relationship references the pending dependent; the pending dependent
\* itself is deleted under the same conditions only.
C19_DeleteOnlyBeforeRelationship ==
    [][/\ \A q \in qr : (\A q2 \in qr' : q2.id # q.id) =>
             /\ \E p \in pending : p.id = q.pending_dependent_id /\ p \notin pending'
             /\ \E u \in Users : \/ g_delete_pending_dependent(u, q.pending_dependent_id)
                                 \/ pd_delete_pending_dependent(u, q.pending_dependent_id)
       /\ \A p \in pending : p \notin pending' =>
             /\ ~\E q \in qr : q.pending_dependent_id = p.id /\ q.is_approved
             /\ ~\E r \in rels : r.pending_dependent_id = p.id]_vars

\* C20: a scan by the user already recorded in scanned_by_user_id, while the
\* invitation is scanned, not approved and not expired, succeeds and leaves
\* status and scanned_by_user_id as they are.
C20_RescanIdempotent ==
    \A q \in qr :
        (q.status = "scanned" /\ ~q.is_approved /\ now <= q.expires_at
         /\ q.scanned_by_user_id # NULL) =>
            \A r \in {pd_scan_qr_code_result(q.scanned_by_user_id, q.id),
                      dep_scan_qr_code_result(q.scanned_by_user_id, q.id)} :
                /\ r.code = 200
                /\ \E q2 \in r.db.qr : /\ q2.id = q.id
                                       /\ q2.status = q.status
                                       /\ q2.scanned_by_user_id = q.scanned_by_user_id

\* C21: a collaborator invitation code is used at most once: of the accept
\* requests for one code at most one is answered with success and at most one
\* collaborator relationship is inserted, also when two requests interleave.
C21_CodeSingleUse ==
    \A c \in collab :
        /\ Cardinality({r \in inflight : r.invitation_id = c.id /\ r.status_code = 200}) <= 1
        /\ Cardinality({r \in rels : /\ r.guardian_type = "collaborator"
                                     /\ r.dependent_id = c.dependent_id}) <= 1

\* u has a relationship with the dependent that is primary in both fields.
HasPrimaryLink(u, d) ==
    \E r \in rels : r.guardian_id = u /\ r.dependent_id = d /\ r.is_primary /\ r.guardian_type = "primary"

\* C22: a caller without a primary relationship to the dependent is answered
\* 403 by create_collaborator_invitation and by revoke_collaborator, and the
\* store is left as it was; revoke_collaborator, whoever calls it, deletes no
\* relationship whose guardian_type is not collaborator.
C22_PrimaryOnly ==
    /\ \A u \in Users : \A d \in Users :
          ~HasPrimaryLink(u, d) =>
              /\ create_collaborator_invitation_result(u, d).code = 403
              /\ create_collaborator_invitation_result(u, d).db = DB
    /\ \A u \in Users : \A rel \in rels :
          LET r == revoke_collaborator_result(u, rel.id) IN
          /\ ~HasPrimaryLink(u, rel.dependent_id) => (r.code = 403 /\ r.db = DB)
          /\ \A x \in rels \ r.db.rels : x = rel /\ x.guardian_type = "collaborator"

\* A collaborator is linked to a dependent: the collaborator lacks the primary
\* relationship, and the primary guardian's revoke of that link succeeds.
C22_Witness ==
    \E rel \in rels : \E g \in Users :
        /\ rel.guardian_type = "collaborator"
        /\ verify_guardian_role(rel.guardian_id)
        /\ ~HasPrimaryLink(rel.guardian_id, rel.dependent_id)
        /\ revoke_collaborator_result(g, rel.id).code = 200

\* C23: while the relationship it was filed for exists, an auto-generated
\* guardian contact is protected: every update or delete request of its owner
\* and every delete request of a guardian is rejected, and the contact stays
\* as it is.
C23_AutoContactProtected ==
    \A c \in contacts :
        (/\ c.is_auto_generated
         /\ \E r \in rels : r.dependent_id = c.user_id /\ r.guardian_id = c.auto_from_guardian_id)
        => LET id == <<c.user_id, c.phone_number>> IN
           /\ \A data \in ContactUpdates :
                 /\ update_my_emergency_contact_result(c.user_id, id, data).code # 200
                 /\ c \in update_my_emergency_contact_result(c.user_id, id, data).db.contacts
           /\ delete_my_emergency_contact_result(c.user_id, id).code # 200
           /\ c \in delete_my_emergency_contact_result(c.user_id, id).db.contacts
           /\ \A u \in Users :
                 /\ delete_dependent_emergency_contact_result(u, id).code # 200
                 /\ c \in delete_dependent_emergency_contact_result(u, id).db.contacts

\* C24: select_user_role never gives anyone the guardian role or the admin
\* role, whatever role is asked for; and in every step in which a user comes to
\* hold the guardian role, that user's biometric_enabled goes from false to
\* true, which only enable_biometric_authentication does.
C24_GuardianOnlyAfterBiometric ==
    /\ [](\A u \in Users : \A role_id \in RoleIds : \A v \in Users :
              (select_user_role_result(u, role_id).db.roles[v] \ roles[v]) \cap {"guardian", "admin"} = {})
    /\ [][\A u \in Users :
              /\ ("guardian" \in roles'[u] /\ "guardian" \notin roles[u])
                    => (u \notin biometric /\ u \in biometric')
              /\ "admin" \in roles'[u] => "admin" \in roles[u]]_vars

\* One user holds the guardian role, with biometric enabled, next to a role
\* taken through select_user_role; another has selected guardian, was answered
\* 200 and holds no role.
C24_Witness ==
    \E u \in Users : \E v \in Users :
        /\ roles[u] = {"guardian", "global_user"}
        /\ u \in biometric
        /\ roles[v] = {}
        /\ select_user_role_result(v, "guardian").code = 200

\* C25: a caller who holds one of the roles child, elderly, global_user,
\* guardian or admin is not answered 403 by create_sos_event, and the request
\* stores an SOS event whose user_id is the caller.
C25_RoleHolderPassesGate ==
    \A u \in Users :
        roles[u] \cap {"child", "elderly", "global_user", "guardian", "admin"} # {}
        => /\ create_sos_event_result(u).code # 403
           /\ \E e \in create_sos_event_result(u).sos_events \ sos_events : e.user_id = u

\* C26: an invitation that a scan has bound to a user stays bound to that
\* user: no scan request, through either scan endpoint, leaves it with another
\* scanned_by_user_id, and no scan request links an account other than the
\* bound one to the invitation's guardian.
C26_ScannerNeverRebound ==
    \A q \in qr :
        q.scanned_by_user_id # NULL =>
            \A u \in Users :
                \A r \in {pd_scan_qr_code_result(u, q.id), dep_scan_qr_code_result(u, q.id)} :
                    /\ \A q2 \in r.db.qr : q2.id = q.id => q2.scanned_by_user_id = q.scanned_by_user_id
                    /\ \A n \in r.db.rels \ rels : n.dependent_id = q.scanned_by_user_id

\* C28: every guardian_dependents row agrees in its two role fields:
\* is_primary is true exactly when guardian_type is "primary".
C28_RoleFieldsAgree ==
    \A r \in rels : r.is_primary <=> (r.guardian_type = "primary")

\* The latest invitation of the stub is past expires_at and was not approved.
LatestExpiredUnapproved(pdid) ==
    LET mine == {q \in qr : q.pending_dependent_id = pdid} IN
    /\ \E p \in pending : p.id = pdid
    /\ mine # {}
    /\ \E q \in mine : /\ \A o \in mine : o.id <= q.id
                       /\ is_expired(q)
                       /\ q.status # "approved"

\* The stub has a pending invitation that expires in the future.
FreshInvitation(pdid) ==
    \E q \in qr : q.pending_dependent_id = pdid /\ q.status = "pending" /\ q.expires_at > now

\* C29: a stub whose latest invitation expired unapproved gets a fresh pending
\* invitation with a future expires_at from the owner's generate-qr requests
\* alone, with no scan of the old token (as long as the model has room for
\* one more invitation row).
C29_ExpiryNeverBlocksReissue ==
    \A pdid \in PendingIds :
        (LatestExpiredUnapproved(pdid) /\ seq.qr <= MaxQR)
            ~> (FreshInvitation(pdid) \/ seq.qr > MaxQR)

\* The invitations of a stub that are pending or scanned and not past
\* expires_at.
ActiveInvitations(pdid) ==
    {q \in qr : /\ q.pending_dependent_id = pdid
                /\ q.status \in {"pending", "scanned"}
                /\ ~(now > q.expires_at)}

\* C30: a pending-dependent stub never has two active invitations at once.
C30_AtMostOneActive ==
    \A pdid \in PendingIds : Cardinality(ActiveInvitations(pdid)) <= 1

====
